---- MODULE Spec2Model ----
(***************************************************************************)
(* The headless (simulated) WebXR device of webxr/headless/mod.rs:         *)
(* the shared HeadlessDeviceData behind one Mutex, the control loop        *)
(* (run_loop / handle_msg) that applies MockDeviceMsg commands to it, the  *)
(* discovery object (supports_session / request_session) and the device    *)
(* actor (HeadlessDevice) that reads and writes it under the same Mutex.   *)
(***************************************************************************)
EXTENDS Integers, Sequences, FiniteSets, TLC

\* ------------------------------------------------------------------ bounds
\* Commands sent on the command channel in one behaviour.
MaxCmds == 3
\* Calls of the device actor and of the discovery object in one behaviour.
MaxCalls == 3
\* Hit-test sources requested in one behaviour.
MaxTests == 2
\* Commands sent in the behaviours that follow one press through a disconnect
\* and a reconnect: add, press, disconnect, reconnect, release.
MaxPressCmds == 5

\* ------------------------------------------------------------ value domains
Ids == {1, 2}
Kinds == {"Select", "Squeeze"}
SelectEventValues == {"Start", "End", "Select"}
Modes == {"Inline", "ImmersiveVR", "ImmersiveAR"}
Hands == {"Left", "Right"}
Dests == {1, 2}
\* Rigid transforms are abstracted to the cyclic group Z_3 (0 is the identity);
\* an Option<T> is a sequence of length at most one.
Transforms == {0, 1, 2}
None == << >>
Some(x) == << x >>
IsSome(o) == Len(o) = 1
Inverse(t) == (3 - t) % 3
OptInverse(o) == IF IsSome(o) THEN Some(Inverse(o[1])) ELSE None

VARIABLES
    data,          \* HeadlessDeviceData, the record behind Arc<Mutex<..>>
    mutex,         \* owner of the Mutex: "free", "loop" or "dev"
    chan,          \* the command channel: messages sent and not yet received, each
                   \* with its arrival number
    chanOpen,      \* FALSE once every Sender of the command channel is dropped
    loopPc,        \* run_loop: "recv", "effects" (inside handle_msg) or "done"
    loopEffects,   \* what handle_msg still has to do before it returns
    loopRet,       \* the value handle_msg is going to return
    clock,         \* time::precise_time_ns(), one tick per reading
    sinks,         \* what each event destination (Sender<Event>) has received
    quitSignals,   \* number of Quitter::quit() calls made
    acks,          \* number of replies sent on a Disconnect's ack channel
    disc,          \* HeadlessDiscovery's supports_vr / supports_inline / supports_ar
    reqPc,         \* request_session: "idle" or "validate" (after supports_session)
    reqMode,       \* the mode of the request_session call in progress
    session,       \* history: the latest request_session call (the n-th) and its result
    devices,       \* the HeadlessDevice actors spawned so far
    applied,       \* history: the commands handle_msg was called with, in order, each
                   \* with what its target input was when the call began
    raised,        \* history: every event given to EventBuffer::callback, in order
    raisedBy,      \* history: for raised[i], the index in applied of its command (0: device actor)
    attachedAt,    \* history: Len(raised) at each set_event_dest call, with its dest
    nCalls,        \* history: number of device-actor and discovery calls made
    calls          \* history: the frame-related calls of the device actors, in order,
                   \* each with what it returned and the state it was made in

vars == << data, mutex, chan, chanOpen, loopPc, loopEffects, loopRet, clock,
           sinks, quitSignals, acks, disc, reqPc, reqMode, session, devices,
           applied, raised, raisedBy, attachedAt, nCalls, calls >>

\* ------------------------------------------------------------------ values
\* InputSource: the descriptor of an input.
InputSource(id, hand) ==
    [id |-> id, handedness |-> hand, target_ray_mode |-> "Gaze", profiles |-> "p0"]
NoSource == [id |-> 0, handedness |-> "", target_ray_mode |-> "", profiles |-> ""]

\* Frame: what get_frame builds.
NoFrame == [transform |-> None, inputs |-> << >>, events |-> << >>,
            time_ns |-> 0, sent_time |-> 0, hit_test_results |-> << >>]

\* Event, as given to EventBuffer::callback.
Event(type, id, kind, ev, str, source, frame) ==
    [type |-> type, id |-> id, kind |-> kind, ev |-> ev, str |-> str,
     source |-> source, frame |-> frame]
AddInputEvent(source) == Event("AddInput", source.id, "", "", "", source, NoFrame)
RemoveInputEvent(id) == Event("RemoveInput", id, "", "", "", NoSource, NoFrame)
UpdateInputEvent(id, source) == Event("UpdateInput", id, "", "", "", source, NoFrame)
SelectEv(id, kind, ev, frame) == Event("Select", id, kind, ev, "", NoSource, frame)
VisibilityChangeEvent(v) == Event("VisibilityChange", 0, "", "", v, NoSource, NoFrame)
SessionEndEvent == Event("SessionEnd", 0, "", "", "", NoSource, NoFrame)

\* MockDeviceMsg, one record shape for every variant.
Msg(type, id, sub, kind, ev, str, opt, opt2) ==
    [type |-> type, id |-> id, sub |-> sub, kind |-> kind, ev |-> ev,
     str |-> str, opt |-> opt, opt2 |-> opt2]
SetWorld(w) == Msg("SetWorld", 0, "", "", "", "", Some(w), None)
ClearWorld == Msg("ClearWorld", 0, "", "", "", "", None, None)
SetViewerOrigin(o) == Msg("SetViewerOrigin", 0, "", "", "", "", o, None)
SetFloorOrigin(o) == Msg("SetFloorOrigin", 0, "", "", "", "", o, None)
SetViews(v) == Msg("SetViews", 0, "", "", "", v, None, None)
VisibilityChange(v) == Msg("VisibilityChange", 0, "", "", "", v, None, None)
AddInputSource(id, hand, pointer, grip) ==
    Msg("AddInputSource", id, "", "", "", hand, pointer, grip)
MessageInputSource(id, sub, kind, ev, str, opt) ==
    Msg("MessageInputSource", id, sub, kind, ev, str, opt, None)
TriggerSelect(id, kind, ev) == MessageInputSource(id, "TriggerSelect", kind, ev, "", None)
InputDisconnect(id) == MessageInputSource(id, "Disconnect", "", "", "", None)
InputReconnect(id) == MessageInputSource(id, "Reconnect", "", "", "", None)
SetHandedness(id, h) == MessageInputSource(id, "SetHandedness", "", "", h, None)
SetProfiles(id, p) == MessageInputSource(id, "SetProfiles", "", "", p, None)
SetTargetRayMode(id, t) == MessageInputSource(id, "SetTargetRayMode", "", "", t, None)
SetPointerOrigin(id, o) == MessageInputSource(id, "SetPointerOrigin", "", "", "", o)
SetGripOrigin(id, o) == MessageInputSource(id, "SetGripOrigin", "", "", "", o)
Disconnect == Msg("Disconnect", 0, "", "", "", "", None, None)

\* What handle_msg does, in order, after it has updated the fields of the state:
\* a call of EventBuffer::callback, of the quitter, or a send on the ack channel.
CallbackEff(e) == [eff |-> "callback", ev |-> e]
QuitEff == [eff |-> "quit", ev |-> SessionEndEvent]
AckEff == [eff |-> "ack", ev |-> SessionEndEvent]

\* ------------------------------------------------------- HeadlessDeviceData
\* simulate_device_connection: the state built from a MockDeviceInit.
InitData(floor_origin, viewer_origin, views, world) ==
    [floor_transform |-> OptInverse(floor_origin),
     viewer_origin |-> viewer_origin,
     views |-> views,
     needs_view_update |-> FALSE,
     needs_floor_update |-> FALSE,
     inputs |-> << >>,
     events |-> [state |-> "Buffered", buf |-> << >>, dest |-> 0],
     quitter |-> FALSE,
     disconnected |-> FALSE,
     world |-> world]

\* InputInfo pushed by AddInputSource.
InputInfo(source, pointer, grip) ==
    [source |-> source, active |-> TRUE, pointer |-> pointer, grip |-> grip,
     clicking |-> FALSE]

RECURSIVE ActiveInputFrames(_)
ActiveInputFrames(inps) ==
    IF inps = << >> THEN << >>
    ELSE LET i == Head(inps)
             rest == ActiveInputFrames(Tail(inps))
         IN IF i.active
            THEN << [id |-> i.source.id, target_ray_origin |-> i.pointer,
                     grip_origin |-> i.grip, pressed |-> FALSE,
                     squeezed |-> FALSE] >> \o rest
            ELSE rest

\* Mutant: the frame lists every entry of the registry.
get_frame_AllInputs(d, now) ==
    [transform |-> d.viewer_origin,
     inputs |-> [i \in DOMAIN d.inputs |->
                    [id |-> d.inputs[i].source.id,
                     target_ray_origin |-> d.inputs[i].pointer,
                     grip_origin |-> d.inputs[i].grip,
                     pressed |-> FALSE, squeezed |-> FALSE]],
     events |-> << >>,
     time_ns |-> now,
     sent_time |-> 0,
     hit_test_results |-> << >>]

get_frame(d, now) ==
    [transform |-> d.viewer_origin,
     inputs |-> ActiveInputFrames(d.inputs),
     events |-> << >>,
     time_ns |-> now,
     sent_time |-> 0,
     hit_test_results |-> << >>]

\* Mutant: the lookup returns the entry with that id inserted last.
FindInput_Last(inps, id) ==
    LET S == {i \in DOMAIN inps : inps[i].source.id = id}
    IN IF S = {} THEN 0 ELSE CHOOSE i \in S : \A j \in S : i >= j

\* self.inputs.iter_mut().find(|i| i.source.id == id): the index of the first
\* entry with that id, 0 when there is none.
FindInput(inps, id) ==
    LET S == {i \in DOMAIN inps : inps[i].source.id = id}
    IN IF S = {} THEN 0 ELSE CHOOSE i \in S : \A j \in S : i <= j

\* The result of handle_msg: the new state, the calls it makes in order, the
\* number of clock readings it took and the value it returns.
Ret(d, effects, ticks, ret) ==
    [data |-> d, effects |-> effects, ticks |-> ticks, ret |-> ret]

\* Mutant: a TriggerSelect is never ignored.
TriggerIgnored_Never(input) == FALSE

\* TriggerSelect: the guard on an inactive input.
TriggerIgnored(input) == ~input.active

\* Mutants: the clicking flag is never set; it is cleared by End only.
NextClicking_Never(event) == FALSE
NextClicking_NotEnd(event) == event # "End"

\* TriggerSelect: the new clicking flag.
NextClicking(event) == event = "Start"

\* Mutant: an End is passed on as End also when the press was held.
select_events_Raw(id, kind, event, clicking, frame) ==
    IF event = "Select"
    THEN << SelectEv(id, kind, "Start", frame), SelectEv(id, kind, "Select", frame) >>
    ELSE << SelectEv(id, kind, event, frame) >>

\* TriggerSelect: the events emitted, given the clicking flag before the command.
select_events(id, kind, event, clicking, frame) ==
    CASE event = "Start" -> << SelectEv(id, kind, "Start", frame) >>
      [] event = "End" ->
            IF clicking
            THEN << SelectEv(id, kind, "Select", frame) >>
            ELSE << SelectEv(id, kind, "End", frame) >>
      [] event = "Select" ->
            << SelectEv(id, kind, "Start", frame), SelectEv(id, kind, "Select", frame) >>

Callbacks(evs) == [k \in DOMAIN evs |-> CallbackEff(evs[k])]

\* Mutant: Disconnect does not look at the active flag.
input_disconnect_Unguarded(d, i) ==
    Ret([d EXCEPT !.inputs[i].active = FALSE, !.inputs[i].clicking = FALSE],
        << CallbackEff(RemoveInputEvent(d.inputs[i].source.id)) >>, 0, TRUE)

\* Mutant: Disconnect leaves the clicking flag as it is.
input_disconnect_KeepsClicking(d, i) ==
    LET input == d.inputs[i]
    IN IF input.active
       THEN Ret([d EXCEPT !.inputs[i].active = FALSE],
                << CallbackEff(RemoveInputEvent(input.source.id)) >>, 0, TRUE)
       ELSE Ret(d, << >>, 0, TRUE)

\* MockInputMsg::Disconnect on a found entry.
input_disconnect(d, i) ==
    LET input == d.inputs[i]
    IN IF input.active
       THEN Ret([d EXCEPT !.inputs[i].active = FALSE, !.inputs[i].clicking = FALSE],
                << CallbackEff(RemoveInputEvent(input.source.id)) >>, 0, TRUE)
       ELSE Ret(d, << >>, 0, TRUE)

\* MockInputMsg::Reconnect on a found entry.
input_reconnect(d, i) ==
    LET input == d.inputs[i]
    IN IF ~input.active
       THEN Ret([d EXCEPT !.inputs[i].active = TRUE],
                << CallbackEff(AddInputEvent(input.source)) >>, 0, TRUE)
       ELSE Ret(d, << >>, 0, TRUE)

\* MockInputMsg::TriggerSelect on a found entry.
trigger_select(d, i, msg, now) ==
    LET input == d.inputs[i]
    IN IF TriggerIgnored(input)
       THEN Ret(d, << >>, 0, TRUE)
       ELSE LET clicking == input.clicking
                d2 == [d EXCEPT !.inputs[i].clicking = NextClicking(msg.ev)]
                frame == get_frame(d2, now)
            IN Ret(d2, Callbacks(select_events(msg.id, msg.kind, msg.ev, clicking, frame)),
                   1, TRUE)

\* MockDeviceMsg::MessageInputSource(id, msg).
message_input_source(d, msg, now) ==
    LET i == FindInput(d.inputs, msg.id)
    IN IF i = 0 THEN Ret(d, << >>, 0, TRUE)
       ELSE CASE msg.sub = "SetHandedness" ->
                    LET d2 == [d EXCEPT !.inputs[i].source.handedness = msg.str]
                    IN Ret(d2, << CallbackEff(UpdateInputEvent(msg.id, d2.inputs[i].source)) >>,
                           0, TRUE)
              [] msg.sub = "SetProfiles" ->
                    LET d2 == [d EXCEPT !.inputs[i].source.profiles = msg.str]
                    IN Ret(d2, << CallbackEff(UpdateInputEvent(msg.id, d2.inputs[i].source)) >>,
                           0, TRUE)
              [] msg.sub = "SetTargetRayMode" ->
                    LET d2 == [d EXCEPT !.inputs[i].source.target_ray_mode = msg.str]
                    IN Ret(d2, << CallbackEff(UpdateInputEvent(msg.id, d2.inputs[i].source)) >>,
                           0, TRUE)
              [] msg.sub = "SetPointerOrigin" ->
                    Ret([d EXCEPT !.inputs[i].pointer = msg.opt], << >>, 0, TRUE)
              [] msg.sub = "SetGripOrigin" ->
                    Ret([d EXCEPT !.inputs[i].grip = msg.opt], << >>, 0, TRUE)
              [] msg.sub = "TriggerSelect" -> trigger_select(d, i, msg, now)
              [] msg.sub = "Disconnect" -> input_disconnect(d, i)
              [] msg.sub = "Reconnect" -> input_reconnect(d, i)

\* MockDeviceMsg::Disconnect(s).
device_disconnect(d) ==
    Ret([d EXCEPT !.disconnected = TRUE], << QuitEff, AckEff >>, 0, FALSE)

handle_msg(d, msg, now) ==
    CASE msg.type = "SetWorld" -> Ret([d EXCEPT !.world = msg.opt], << >>, 0, TRUE)
      [] msg.type = "ClearWorld" -> Ret([d EXCEPT !.world = None], << >>, 0, TRUE)
      [] msg.type = "SetViewerOrigin" ->
            Ret([d EXCEPT !.viewer_origin = msg.opt], << >>, 0, TRUE)
      [] msg.type = "SetFloorOrigin" ->
            Ret([d EXCEPT !.floor_transform = OptInverse(msg.opt),
                          !.needs_floor_update = TRUE], << >>, 0, TRUE)
      [] msg.type = "SetViews" ->
            Ret([d EXCEPT !.views = msg.str, !.needs_view_update = TRUE], << >>, 0, TRUE)
      [] msg.type = "VisibilityChange" ->
            Ret(d, << CallbackEff(VisibilityChangeEvent(msg.str)) >>, 0, TRUE)
      [] msg.type = "AddInputSource" ->
            LET source == InputSource(msg.id, msg.str)
            IN Ret([d EXCEPT !.inputs = Append(@, InputInfo(source, msg.opt, msg.opt2))],
                   << CallbackEff(AddInputEvent(source)) >>, 0, TRUE)
      [] msg.type = "MessageInputSource" -> message_input_source(d, msg, now)
      [] msg.type = "Disconnect" -> device_disconnect(d)

\* ------------------------------------------------------------- EventBuffer
\* EventBuffer is Buffered(queue) until a sink is attached, Sink(dest) after.
\* callback: push on the queue while Buffered, send to the sink once attached.
EventBuffer_callback(eb, sk, e) ==
    IF eb.state = "Buffered"
    THEN [events |-> [eb EXCEPT !.buf = Append(@, e)], sinks |-> sk]
    ELSE [events |-> eb, sinks |-> [sk EXCEPT ![eb.dest] = Append(@, e)]]

\* upgrade: drain the queue into the sink in order, then become Sink(dest).
EventBuffer_upgrade(eb, sk, dest) ==
    [events |-> [state |-> "Sink", buf |-> << >>, dest |-> dest],
     sinks |-> IF eb.state = "Buffered"
               THEN [sk EXCEPT ![dest] = @ \o eb.buf]
               ELSE sk]

\* ----------------------------------------------------------------- run_loop
Sent == Len(applied) + Len(chan)

\* A client sends a command on the channel, at most max commands in all.
SendUpTo(msg, max) ==
    /\ chanOpen
    /\ Sent < max
    /\ chan' = Append(chan, [msg |-> msg, seq |-> Sent + 1])
    /\ UNCHANGED calls
    /\ UNCHANGED << data, mutex, chanOpen, loopPc, loopEffects, loopRet, clock, sinks,
                    quitSignals, acks, disc, reqPc, reqMode, session, devices,
                    applied, raised, raisedBy, attachedAt, nCalls >>

Send(msg) == SendUpTo(msg, MaxCmds)

\* Every Sender of the command channel is dropped.
CloseChannel ==
    /\ chanOpen
    /\ chanOpen' = FALSE
    /\ UNCHANGED calls
    /\ UNCHANGED << data, mutex, chan, loopPc, loopEffects, loopRet, clock, sinks,
                    quitSignals, acks, disc, reqPc, reqMode, session, devices,
                    applied, raised, raisedBy, attachedAt, nCalls >>

\* Mutant: the loop takes the latest message and drops the older ones.
Recv_Latest(c) == [item |-> c[Len(c)], rest |-> << >>]

\* receiver.recv(): the oldest message in the channel, and what stays in it.
Recv(c) == [item |-> Head(c), rest |-> Tail(c)]

\* Mutant: run_loop ignores what handle_msg returns.
AfterHandle_Continue(ret) == "recv"

\* Where run_loop goes when handle_msg has returned ret.
AfterHandle(ret) == IF ret THEN "recv" ELSE "done"

\* History entry of a handle_msg call: the message, its arrival number, whether
\* a quitter is set, whether the entry its id resolves to exists, is active
\* and is clicking, and the registry, all as the call begins.
Applied(d, item) ==
    LET msg == item.msg
        i == FindInput(d.inputs, msg.id)
    IN [msg |-> msg,
        seq |-> item.seq,
        quitter |-> d.quitter,
        found |-> i # 0,
        active |-> i # 0 /\ d.inputs[i].active,
        clicking |-> i # 0 /\ d.inputs[i].clicking,
        inputs |-> d.inputs]

\* One iteration of run_loop up to the first call handle_msg makes: receive a
\* message, lock the state, update its fields.
LoopStep ==
    /\ loopPc = "recv"
    /\ chan # << >>
    /\ mutex = "free"
    /\ LET got == Recv(chan)
           r == handle_msg(data, got.item.msg, clock)
       IN /\ chan' = got.rest
          /\ applied' = Append(applied, Applied(data, got.item))
          /\ data' = r.data
          /\ clock' = clock + r.ticks
          /\ loopEffects' = r.effects
          /\ loopRet' = r.ret
          /\ IF r.effects = << >>
             THEN mutex' = "free" /\ loopPc' = AfterHandle(r.ret)
             ELSE mutex' = "loop" /\ loopPc' = "effects"
    /\ UNCHANGED calls
    /\ UNCHANGED << chanOpen, sinks, quitSignals, acks, disc, reqPc, reqMode, session,
                    devices, raised, raisedBy, attachedAt, nCalls >>

\* The next call of handle_msg, made with the state locked; the lock is
\* released when handle_msg has returned.
LoopEffect ==
    /\ loopPc = "effects"
    /\ mutex = "loop"
    /\ LET e == Head(loopEffects)
           cb == EventBuffer_callback(data.events, sinks, e.ev)
       IN /\ IF e.eff = "callback"
             THEN /\ data' = [data EXCEPT !.events = cb.events]
                  /\ sinks' = cb.sinks
                  /\ raised' = Append(raised, e.ev)
                  /\ raisedBy' = Append(raisedBy, Len(applied))
             ELSE UNCHANGED << data, sinks, raised, raisedBy >>
          /\ quitSignals' = IF e.eff = "quit" /\ data.quitter
                            THEN quitSignals + 1 ELSE quitSignals
          /\ acks' = IF e.eff = "ack" THEN acks + 1 ELSE acks
          /\ loopEffects' = Tail(loopEffects)
          /\ IF Tail(loopEffects) = << >>
             THEN mutex' = "free" /\ loopPc' = AfterHandle(loopRet)
             ELSE UNCHANGED << mutex, loopPc >>
    /\ UNCHANGED calls
    /\ UNCHANGED << chan, chanOpen, loopRet, clock, disc, reqPc, reqMode, session,
                    devices, applied, attachedAt, nCalls >>

\* receiver.recv() fails: the channel is closed and empty.
LoopClosed ==
    /\ loopPc = "recv"
    /\ chan = << >>
    /\ ~chanOpen
    /\ loopPc' = "done"
    /\ UNCHANGED calls
    /\ UNCHANGED << data, mutex, chan, chanOpen, loopEffects, loopRet, clock, sinks,
                    quitSignals, acks, disc, reqPc, reqMode, session, devices,
                    applied, raised, raisedBy, attachedAt, nCalls >>

\* ------------------------------------------------------- HeadlessDiscovery
\* The HeadlessDevice that request_session spawns: default clip planes, an
\* empty hit-test list; pc is where its wait_for_animation_frame call stands.
HeadlessDevice(mode) ==
    [mode |-> mode, clip_planes |-> 0,
     hit_tests |-> [tests |-> << >>, uncommitted_tests |-> << >>],
     pc |-> "idle"]

\* Mutant: supports_session does not look at the disconnected flag.
supports_session_Configured(d, cfg, mode) ==
    CASE mode = "Inline" -> cfg.supports_inline
      [] mode = "ImmersiveVR" -> cfg.supports_vr
      [] mode = "ImmersiveAR" -> cfg.supports_ar

supports_session(d, cfg, mode) ==
    IF d.disconnected THEN FALSE
    ELSE CASE mode = "Inline" -> cfg.supports_inline
           [] mode = "ImmersiveVR" -> cfg.supports_vr
           [] mode = "ImmersiveAR" -> cfg.supports_ar

\* request_session up to its call of supports_session (which locks the state).
RequestSession(mode) ==
    /\ reqPc = "idle"
    /\ mutex = "free"
    /\ nCalls < MaxCalls
    /\ nCalls' = nCalls + 1
    /\ IF ~supports_session(data, disc, mode)
       THEN /\ session' = [n |-> session.n + 1, mode |-> mode, validated |-> FALSE,
                            result |-> "NoMatchingDevice"]
            /\ UNCHANGED << reqPc, reqMode >>
       ELSE /\ reqPc' = "validate"
            /\ reqMode' = mode
            /\ session' = [n |-> session.n + 1, mode |-> mode, validated |-> FALSE,
                            result |-> "Pending"]
    /\ UNCHANGED calls
    /\ UNCHANGED << data, mutex, chan, chanOpen, loopPc, loopEffects, loopRet, clock,
                    sinks, quitSignals, acks, disc, devices, applied, raised, raisedBy,
                    attachedAt >>

\* The rest of request_session: init.validate against the supported features
\* (read under the lock), whose outcome is the collaborator's, then xr.spawn.
RequestSessionSpawn(valid) ==
    /\ reqPc = "validate"
    /\ mutex = "free"
    /\ reqPc' = "idle"
    /\ IF valid
       THEN /\ devices' = Append(devices, HeadlessDevice(reqMode))
            /\ session' = [session EXCEPT !.validated = TRUE, !.result = "Ok"]
       ELSE /\ session' = [session EXCEPT !.validated = TRUE, !.result = "ValidateError"]
            /\ UNCHANGED devices
    /\ UNCHANGED calls
    /\ UNCHANGED << data, mutex, chan, chanOpen, loopPc, loopEffects, loopRet, clock,
                    sinks, quitSignals, acks, disc, reqMode, applied, raised, raisedBy,
                    attachedAt, nCalls >>

\* ---------------------------------------------------------- HeadlessDevice
\* Mutant: set_event_dest replaces the buffer by the sink without upgrading it.
SetEventDest_NoFlush(dest) ==
    /\ devices # << >>
    /\ mutex = "free"
    /\ nCalls < MaxCalls
    /\ nCalls' = nCalls + 1
    /\ data' = [data EXCEPT !.events = [state |-> "Sink", buf |-> << >>, dest |-> dest]]
    /\ attachedAt' = Append(attachedAt, [dest |-> dest, at |-> Len(raised)])
    /\ UNCHANGED calls
    /\ UNCHANGED << mutex, chan, chanOpen, loopPc, loopEffects, loopRet, clock, sinks,
                    quitSignals, acks, disc, reqPc, reqMode, session, devices,
                    applied, raised, raisedBy >>

\* set_event_dest(dest): lock, upgrade the event buffer.
SetEventDest(dest) ==
    /\ devices # << >>
    /\ mutex = "free"
    /\ nCalls < MaxCalls
    /\ nCalls' = nCalls + 1
    /\ LET up == EventBuffer_upgrade(data.events, sinks, dest)
       IN /\ data' = [data EXCEPT !.events = up.events]
          /\ sinks' = up.sinks
    /\ attachedAt' = Append(attachedAt, [dest |-> dest, at |-> Len(raised)])
    /\ UNCHANGED calls
    /\ UNCHANGED << mutex, chan, chanOpen, loopPc, loopEffects, loopRet, clock,
                    quitSignals, acks, disc, reqPc, reqMode, session, devices,
                    applied, raised, raisedBy >>

\* Mutant: quit() raises the session-end event without taking the lock.
Quit_NoLock ==
    /\ devices # << >>
    /\ nCalls < MaxCalls
    /\ nCalls' = nCalls + 1
    /\ LET cb == EventBuffer_callback(data.events, sinks, SessionEndEvent)
       IN /\ data' = [data EXCEPT !.events = cb.events]
          /\ sinks' = cb.sinks
    /\ raised' = Append(raised, SessionEndEvent)
    /\ raisedBy' = Append(raisedBy, 0)
    /\ UNCHANGED calls
    /\ UNCHANGED << mutex, chan, chanOpen, loopPc, loopEffects, loopRet, clock,
                    quitSignals, acks, disc, reqPc, reqMode, session, devices,
                    applied, attachedAt >>

\* Mutant: quit() also marks the device as disconnected.
Quit_Disconnects ==
    /\ devices # << >>
    /\ mutex = "free"
    /\ nCalls < MaxCalls
    /\ nCalls' = nCalls + 1
    /\ LET cb == EventBuffer_callback(data.events, sinks, SessionEndEvent)
       IN /\ data' = [data EXCEPT !.events = cb.events, !.disconnected = TRUE]
          /\ sinks' = cb.sinks
    /\ raised' = Append(raised, SessionEndEvent)
    /\ raisedBy' = Append(raisedBy, 0)
    /\ UNCHANGED calls
    /\ UNCHANGED << mutex, chan, chanOpen, loopPc, loopEffects, loopRet, clock,
                    quitSignals, acks, disc, reqPc, reqMode, session, devices,
                    applied, attachedAt >>

\* quit(): lock, raise the session-end event.
Quit ==
    /\ devices # << >>
    /\ mutex = "free"
    /\ nCalls < MaxCalls
    /\ nCalls' = nCalls + 1
    /\ LET cb == EventBuffer_callback(data.events, sinks, SessionEndEvent)
       IN /\ data' = [data EXCEPT !.events = cb.events]
          /\ sinks' = cb.sinks
    /\ raised' = Append(raised, SessionEndEvent)
    /\ raisedBy' = Append(raisedBy, 0)
    /\ UNCHANGED calls
    /\ UNCHANGED << mutex, chan, chanOpen, loopPc, loopEffects, loopRet, clock,
                    quitSignals, acks, disc, reqPc, reqMode, session, devices,
                    applied, attachedAt >>

\* set_quitter(quitter): lock, store the quit callback.
SetQuitter ==
    /\ devices # << >>
    /\ mutex = "free"
    /\ nCalls < MaxCalls
    /\ nCalls' = nCalls + 1
    /\ data' = [data EXCEPT !.quitter = TRUE]
    /\ UNCHANGED calls
    /\ UNCHANGED << mutex, chan, chanOpen, loopPc, loopEffects, loopRet, clock, sinks,
                    quitSignals, acks, disc, reqPc, reqMode, session, devices,
                    applied, raised, raisedBy, attachedAt >>

\* --------------------------------------------------------- hit-test engine
RegionTypes == {"Plane", "Mesh"}
BaseTags == {"Local", "Floor", "Viewer", "TargetRay", "Grip"}

\* Space { base, offset } and HitTestSource { id, space, ray, types }.
Space(tag, input, offset) == [base |-> [tag |-> tag, id |-> input], offset |-> offset]
HitTestSource(id, space, ray, types) ==
    [id |-> id, space |-> space, ray |-> ray, types |-> types]
NoTest == HitTestSource(0, Space("Local", 0, 0), 0, {})

\* MockWorld { regions }, MockRegion { faces, ty }; a face is abstracted to the
\* one native ray that meets it.
Triangle(at) == [at |-> at]
Region(ty, faces) == [ty |-> ty, faces |-> faces]
World(regions) == [regions |-> regions]

\* Composition of rigid transforms, in Z_3.
Compose(a, b) == (a + b) % 3

\* Mutant: an input that is not registered resolves to the identity.
InputPose_Default(d, id, field) ==
    LET i == FindInput(d.inputs, id)
    IN IF i = 0 THEN Some(0)
       ELSE IF field = "pointer" THEN d.inputs[i].pointer ELSE d.inputs[i].grip

\* self.inputs.iter().find(|i| i.source.id == id)?.pointer? (resp. .grip?)
InputPose(d, id, field) ==
    LET i == FindInput(d.inputs, id)
    IN IF i = 0 THEN None
       ELSE IF field = "pointer" THEN d.inputs[i].pointer ELSE d.inputs[i].grip

\* native_ray: the base transform selected by the space's base tag.
BaseTransform(d, base) ==
    CASE base.tag = "Local" -> Some(0)
      [] base.tag = "Floor" -> OptInverse(d.floor_transform)
      [] base.tag = "Viewer" -> d.viewer_origin
      [] base.tag = "TargetRay" -> InputPose(d, base.id, "pointer")
      [] base.tag = "Grip" -> InputPose(d, base.id, "grip")

\* native_ray(ray, space): None when the base transform is absent, else the
\* ray's origin carried through the space's offset and the base transform.
native_ray(d, ray, space) ==
    LET origin == BaseTransform(d, space.base)
    IN IF ~IsSome(origin) THEN None
       ELSE Some(Compose(ray, Compose(space.offset, origin[1])))

\* EntityTypes::is_type and Triangle::intersect.
is_type(types, ty) == ty \in types
intersect(triangle, ray) == IF triangle.at = ray THEN Some(ray) ELSE None

HitTestResult(space, id) == [space |-> space, id |-> id]

\* .filter_map(|triangle| triangle.intersect(ray)).map(HitTestResult { space, id })
RECURSIVE FaceHits(_, _, _)
FaceHits(faces, ray, id) ==
    IF faces = << >> THEN << >>
    ELSE LET hit == intersect(Head(faces), ray)
         IN (IF IsSome(hit) THEN << HitTestResult(hit[1], id) >> ELSE << >>)
            \o FaceHits(Tail(faces), ray, id)

\* Mutant: the type filter lets every region through.
RegionMatches_Any(source, region) == TRUE

\* .filter(|region| source.types.is_type(region.ty))
RegionMatches(source, region) == is_type(source.types, region.ty)

\* world.regions.iter().filter(..).flat_map(|region| &region.faces)...
RECURSIVE RegionHits(_, _, _)
RegionHits(regions, source, ray) ==
    IF regions = << >> THEN << >>
    ELSE (IF RegionMatches(source, Head(regions))
          THEN FaceHits(Head(regions).faces, ray, source.id) ELSE << >>)
         \o RegionHits(Tail(regions), source, ray)

RECURSIVE TestHits(_, _, _)

\* Mutant: an unresolvable ray skips its source only.
Unresolved_Skip(d, world, rest) == TestHits(d, world, rest)

\* let ray = if let Some(ray) = ray { ray } else { break }: what the sources
\* after an unresolvable one contribute.
Unresolved(d, world, rest) == << >>

\* for source in self.hit_tests.tests() { .. frame.hit_test_results.extend(hits) }
TestHits(d, world, tests) ==
    IF tests = << >> THEN << >>
    ELSE LET source == Head(tests)
             ray == native_ray(d, source.ray, source.space)
         IN IF ~IsSome(ray) THEN Unresolved(d, world, Tail(tests))
            ELSE RegionHits(world.regions, source, ray[1])
                 \o TestHits(d, world, Tail(tests))

\* if let Some(ref world) = data.world { .. }
HitTestResults(d, tests) ==
    IF IsSome(d.world) THEN TestHits(d, d.world[1], tests) ELSE << >>

\* ------------------------------------------------------------- HitTestList
\* request_hit_test: the source is pending.
HitTestList_request_hit_test(l, source) ==
    [l EXCEPT !.uncommitted_tests = Append(@, source)]

\* cancel_hit_test: the sources with that id leave both lists.
HitTestList_cancel_hit_test(l, id) ==
    [tests |-> SelectSeq(l.tests, LAMBDA s : s.id # id),
     uncommitted_tests |-> SelectSeq(l.uncommitted_tests, LAMBDA s : s.id # id)]

\* FrameUpdateEvent, one record shape for every variant.
NoViews == [kind |-> "", clip |-> 0]
HitTestSourceAdded(id) ==
    [type |-> "HitTestSourceAdded", id |-> id, views |-> NoViews, floor |-> None]
UpdateViews(v) == [type |-> "UpdateViews", id |-> 0, views |-> v, floor |-> None]
UpdateFloorTransform(f) ==
    [type |-> "UpdateFloorTransform", id |-> 0, views |-> NoViews, floor |-> f]

\* commit_tests: the pending sources become committed, in order, and one
\* hit-test-source-added event is returned for each.
HitTestList_commit_tests(l) ==
    [list |-> [tests |-> l.tests \o l.uncommitted_tests, uncommitted_tests |-> << >>],
     events |-> [i \in DOMAIN l.uncommitted_tests |->
                    HitTestSourceAdded(l.uncommitted_tests[i].id)]]

\* ---------------------------------------------------------- frame assembly
\* views(): Inline in an inline session, else the view configuration with the
\* projection computed from the clip planes.
HeadlessDevice_views(dev, d) ==
    IF dev.mode = "Inline" THEN [kind |-> "Inline", clip |-> 0]
    ELSE [kind |-> d.views, clip |-> dev.clip_planes]

\* views() locks the state unless the session is inline.
ViewsLocks(dev) == dev.mode # "Inline"

\* initial_inputs()
initial_inputs == << >>

\* Mutant: the events pushed during assembly come before the committed ones.
FrameEvents_UpdatesFirst(added, view, floor) == view \o floor \o added

\* The frame's event list: frame.events = events (the committed hit tests),
\* then the push of the view update, then the push of the floor update.
FrameEvents(added, view, floor) == added \o view \o floor

\* Mutant: the view-dirty flag is left set.
ViewFlagAfterFrame_Kept(flag) == flag

\* data.needs_view_update = false, when it was set.
ViewFlagAfterFrame(flag) == FALSE

\* Mutant: the committed hit tests' events are dropped from the frame.
CommittedEvents_Dropped(c) == << >>

\* let events = self.hit_tests.commit_tests(); frame.events = events
CommittedEvents(c) == c.events

\* wait_for_animation_frame: the frame assembled under the lock, the state and
\* the hit-test list it leaves, and whether it locks the state a second time
\* (in views(), with the first guard still held) on the way.
wait_for_animation_frame(d, dev, now) ==
    LET frame == get_frame(d, now)
        c == HitTestList_commit_tests(dev.hit_tests)
        relock == d.needs_view_update /\ ViewsLocks(dev)
        view == IF d.needs_view_update THEN << UpdateViews(HeadlessDevice_views(dev, d)) >> ELSE << >>
        d1 == IF d.needs_view_update
              THEN [d EXCEPT !.needs_view_update = ViewFlagAfterFrame(@)] ELSE d
        hits == HitTestResults(d1, c.list.tests)
        floor == IF d1.needs_floor_update
                 THEN << UpdateFloorTransform(d1.floor_transform) >> ELSE << >>
        d2 == IF d1.needs_floor_update THEN [d1 EXCEPT !.needs_floor_update = FALSE] ELSE d1
    IN [relock |-> relock,
        hit_tests |-> c.list,
        data |-> IF relock THEN d1 ELSE d2,
        frame |-> IF relock THEN NoFrame
                  ELSE [frame EXCEPT !.events = FrameEvents(CommittedEvents(c), view, floor),
                                     !.hit_test_results = hits]]

\* History entry of a frame-related call of device actor k.
Call(op, k, src, num, returned, frame) ==
    [op |-> op, k |-> k, src |-> src, num |-> num, returned |-> returned,
     frame |-> frame, nApplied |-> Len(applied), loopPc |-> loopPc,
     pre |-> data, dev |-> devices[k]]

\* Mutant: the frame is assembled without taking the lock.
WaitForAnimationFrame_NoLock(k) ==
    /\ k \in DOMAIN devices
    /\ devices[k].pc = "idle"
    /\ nCalls < MaxCalls
    /\ nCalls' = nCalls + 1
    /\ LET r == wait_for_animation_frame(data, devices[k], clock)
       IN /\ ~r.relock
          /\ data' = r.data
          /\ devices' = [devices EXCEPT ![k].hit_tests = r.hit_tests]
          /\ calls' = Append(calls, Call("frame", k, NoTest, 0, TRUE, r.frame))
    /\ clock' = clock + 1
    /\ UNCHANGED << mutex, chan, chanOpen, loopPc, loopEffects, loopRet, sinks,
                    quitSignals, acks, disc, reqPc, reqMode, session, applied,
                    raised, raisedBy, attachedAt >>

\* wait_for_animation_frame(): sleep, lock, assemble the frame, return it.
\* When assembly locks the state again the call does not return: the thread
\* blocks on the lock it holds, or panics with the lock held and poisons it.
WaitForAnimationFrame(k) ==
    /\ k \in DOMAIN devices
    /\ devices[k].pc = "idle"
    /\ mutex = "free"
    /\ nCalls < MaxCalls
    /\ nCalls' = nCalls + 1
    /\ LET r == wait_for_animation_frame(data, devices[k], clock)
       IN /\ data' = r.data
          /\ IF r.relock
             THEN \E outcome \in {"relock", "panicked"} :
                    /\ devices' = [devices EXCEPT ![k].hit_tests = r.hit_tests,
                                                  ![k].pc = outcome]
                    /\ mutex' = IF outcome = "relock" THEN "dev" ELSE "poisoned"
                    /\ calls' = Append(calls, Call("frame", k, NoTest, 0, FALSE, NoFrame))
             ELSE /\ devices' = [devices EXCEPT ![k].hit_tests = r.hit_tests]
                  /\ mutex' = mutex
                  /\ calls' = Append(calls, Call("frame", k, NoTest, 0, TRUE, r.frame))
    /\ clock' = clock + 1
    /\ UNCHANGED << chan, chanOpen, loopPc, loopEffects, loopRet, sinks,
                    quitSignals, acks, disc, reqPc, reqMode, session, applied,
                    raised, raisedBy, attachedAt >>

\* update_clip_planes(near, far): update the clip planes, lock, mark the views.
UpdateClipPlanes(k, near) ==
    /\ k \in DOMAIN devices
    /\ devices[k].pc = "idle"
    /\ mutex = "free"
    /\ nCalls < MaxCalls
    /\ nCalls' = nCalls + 1
    /\ devices' = [devices EXCEPT ![k].clip_planes = near]
    /\ data' = [data EXCEPT !.needs_view_update = TRUE]
    /\ calls' = Append(calls, Call("update_clip_planes", k, NoTest, near, TRUE, NoFrame))
    /\ UNCHANGED << mutex, chan, chanOpen, loopPc, loopEffects, loopRet, clock, sinks,
                    quitSignals, acks, disc, reqPc, reqMode, session, applied,
                    raised, raisedBy, attachedAt >>

\* The number of calls of op made so far.
CallsOf(op) == Cardinality({c \in DOMAIN calls : calls[c].op = op})

\* The id of the next source requested (ids are assigned in sequence), and a
\* source against the local space.
NextTestId == CallsOf("request_hit_test") + 1
LocalTest(id) == HitTestSource(id, Space("Local", 0, 0), 0, {"Plane"})

\* request_hit_test(source): no lock, the source goes to the device's list.
RequestHitTest(k, source) ==
    /\ k \in DOMAIN devices
    /\ devices[k].pc = "idle"
    /\ CallsOf("request_hit_test") < MaxTests
    /\ devices' = [devices EXCEPT
                      ![k].hit_tests = HitTestList_request_hit_test(@, source)]
    /\ calls' = Append(calls, Call("request_hit_test", k, source, source.id, TRUE, NoFrame))
    /\ UNCHANGED << data, mutex, chan, chanOpen, loopPc, loopEffects, loopRet, clock,
                    sinks, quitSignals, acks, disc, reqPc, reqMode, session, applied,
                    raised, raisedBy, attachedAt, nCalls >>

\* cancel_hit_test(id): no lock, the id leaves the device's list.
CancelHitTest(k, id) ==
    /\ k \in DOMAIN devices
    /\ devices[k].pc = "idle"
    /\ CallsOf("cancel_hit_test") < CallsOf("request_hit_test")
    /\ devices' = [devices EXCEPT
                      ![k].hit_tests = HitTestList_cancel_hit_test(@, id)]
    /\ calls' = Append(calls, Call("cancel_hit_test", k, NoTest, id, TRUE, NoFrame))
    /\ UNCHANGED << data, mutex, chan, chanOpen, loopPc, loopEffects, loopRet, clock,
                    sinks, quitSignals, acks, disc, reqPc, reqMode, session, applied,
                    raised, raisedBy, attachedAt, nCalls >>

\* run_loop on a poisoned lock: data.lock().expect("Mutex poisoned") panics
\* with the message received and not applied.
LoopPoisoned ==
    /\ loopPc = "recv"
    /\ chan # << >>
    /\ mutex = "poisoned"
    /\ chan' = Tail(chan)
    /\ loopPc' = "panicked"
    /\ UNCHANGED << data, mutex, chanOpen, loopEffects, loopRet, clock, sinks,
                    quitSignals, acks, disc, reqPc, reqMode, session, devices,
                    applied, raised, raisedBy, attachedAt, nCalls, calls >>

\* ----------------------------------------------------------- specifications
\* The state after simulate_device_connection(init, receiver).
InitWith(floor_origin, viewer_origin, views, world, cfg) ==
    /\ data = InitData(floor_origin, viewer_origin, views, world)
    /\ mutex = "free"
    /\ chan = << >>
    /\ chanOpen = TRUE
    /\ loopPc = "recv"
    /\ loopEffects = << >>
    /\ loopRet = TRUE
    /\ clock = 1
    /\ sinks = [d \in Dests |-> << >>]
    /\ quitSignals = 0
    /\ acks = 0
    /\ disc = cfg
    /\ reqPc = "idle"
    /\ reqMode = "Inline"
    /\ session = [n |-> 0, mode |-> "Inline", validated |-> FALSE, result |-> "None"]
    /\ devices = << >>
    /\ applied = << >>
    /\ raised = << >>
    /\ raisedBy = << >>
    /\ attachedAt = << >>
    /\ nCalls = 0
    /\ calls = << >>

InlineOnly == [supports_vr |-> FALSE, supports_inline |-> TRUE, supports_ar |-> FALSE]
VrOnly == [supports_vr |-> TRUE, supports_inline |-> FALSE, supports_ar |-> FALSE]

\* The select state machine: inputs added, triggered, disconnected, reconnected.
SelectCmds ==
    {AddInputSource(1, h, None, None) : h \in Hands}
    \cup {AddInputSource(2, "Left", None, None)}
    \cup {TriggerSelect(id, k, e) : id \in Ids, k \in Kinds, e \in SelectEventValues}
    \cup {InputDisconnect(id) : id \in Ids}
    \cup {InputReconnect(id) : id \in Ids}

InitSelect ==
    \E v \in {None, Some(1)} : InitWith(None, v, "Mono", None, VrOnly)

NextSelect ==
    \/ \E msg \in SelectCmds : Send(msg)
    \/ LoopStep
    \/ LoopEffect

SpecSelect == InitSelect /\ [][NextSelect]_vars

\* Events and their delivery: commands that raise events, against a device
\* actor that attaches sinks and quits.
EventCmds ==
    {AddInputSource(1, "Left", None, None), VisibilityChange("Hidden")}
    \cup {TriggerSelect(1, "Squeeze", e) : e \in {"Start", "Select"}}

InitEvents == InitWith(None, Some(1), "Mono", None, VrOnly)

NextEvents ==
    \/ \E msg \in EventCmds : Send(msg)
    \/ LoopStep
    \/ LoopEffect
    \/ RequestSession("ImmersiveVR")
    \/ RequestSessionSpawn(TRUE)
    \/ \E dest \in Dests : SetEventDest(dest)
    \/ Quit

SpecEvents == InitEvents /\ [][NextEvents]_vars

\* Sessions and disconnection: the device Disconnect among other commands,
\* the channel closing, sessions requested in every mode.
SessionCmds == {Disconnect, SetViewerOrigin(Some(1)), VisibilityChange("Hidden")}

InitSession == \E cfg \in {VrOnly, InlineOnly} : InitWith(None, None, "Mono", None, cfg)

NextSession ==
    \/ \E msg \in SessionCmds : Send(msg)
    \/ CloseChannel
    \/ LoopStep
    \/ LoopEffect
    \/ LoopClosed
    \/ \E mode \in Modes : RequestSession(mode)
    \/ \E valid \in BOOLEAN : RequestSessionSpawn(valid)
    \/ SetQuitter

SpecSession == InitSession /\ [][NextSession]_vars

\* The state after simulate_device_connection(init, receiver) and a
\* request_session(mode) that spawned the device actor.
AllModes == [supports_vr |-> TRUE, supports_inline |-> TRUE, supports_ar |-> TRUE]

InitSpawned(mode, floor_origin, viewer_origin, world) ==
    /\ data = InitData(floor_origin, viewer_origin, "Mono", world)
    /\ mutex = "free"
    /\ chan = << >>
    /\ chanOpen = TRUE
    /\ loopPc = "recv"
    /\ loopEffects = << >>
    /\ loopRet = TRUE
    /\ clock = 1
    /\ sinks = [d \in Dests |-> << >>]
    /\ quitSignals = 0
    /\ acks = 0
    /\ disc = AllModes
    /\ reqPc = "idle"
    /\ reqMode = mode
    /\ session = [n |-> 1, mode |-> mode, validated |-> TRUE, result |-> "Ok"]
    /\ devices = << HeadlessDevice(mode) >>
    /\ applied = << >>
    /\ raised = << >>
    /\ raisedBy = << >>
    /\ attachedAt = << >>
    /\ nCalls = 0
    /\ calls = << >>

\* Frames: one device actor, in every mode, requesting hit tests as it starts
\* and then asking for frames while the loop applies view and floor commands.
FrameCmds == {SetViews("Stereo"), SetFloorOrigin(Some(1))}

InitFrames == \E mode \in Modes : InitSpawned(mode, None, Some(1), None)

NextFrames ==
    \/ \E msg \in FrameCmds : Send(msg)
    \/ LoopStep
    \/ LoopPoisoned
    \/ WaitForAnimationFrame(1)
    \/ UpdateClipPlanes(1, 1)
    \/ (\A c \in DOMAIN calls : calls[c].op = "request_hit_test")
          /\ RequestHitTest(1, LocalTest(NextTestId))

SpecFrames == InitFrames /\ [][NextFrames]_vars

\* The lock: the loop applying view commands and a Disconnect while the
\* device actor asks for frames and updates its clip planes.
LockCmds == {SetViews("Stereo"), Disconnect}

InitLock == \E mode \in {"Inline", "ImmersiveVR"} : InitSpawned(mode, None, Some(1), None)

NextLock ==
    \/ \E msg \in LockCmds : Send(msg)
    \/ LoopStep
    \/ LoopEffect
    \/ LoopPoisoned
    \/ WaitForAnimationFrame(1)
    \/ UpdateClipPlanes(1, 1)

SpecLock == InitLock /\ [][NextLock]_vars

\* Inputs in frames: inputs added, pressed, disconnected and reconnected while
\* the device actor asks for frames.
InputCmds ==
    {AddInputSource(1, "Left", Some(1), None), AddInputSource(2, "Left", None, Some(2)),
     InputDisconnect(1), InputReconnect(1), TriggerSelect(1, "Select", "Start"),
     TriggerSelect(2, "Squeeze", "Select")}

InitInputs == \E mode \in {"Inline", "ImmersiveVR"} : InitSpawned(mode, None, Some(1), None)

NextInputs ==
    \/ \E msg \in InputCmds : Send(msg)
    \/ LoopStep
    \/ LoopEffect
    \/ WaitForAnimationFrame(1)

SpecInputs == InitInputs /\ [][NextInputs]_vars

\* Hit tests: sources requested and frames assembled, with or without a
\* world, while the loop applies one command: it calibrates the floor,
\* registers an input or clears the world.
TestWorld ==
    World(<< Region("Plane", << Triangle(0), Triangle(0), Triangle(2) >>),
             Region("Mesh", << Triangle(2) >>) >>)

TestCmds ==
    {ClearWorld, SetFloorOrigin(Some(1)), AddInputSource(1, "Left", Some(1), None)}

\* The sources requested, with id the next id: against the local space, the
\* floor, the pointer of an input, and one whose type filter matches no region.
TestSources(id) ==
    {HitTestSource(id, Space("Local", 0, 0), 0, {"Plane"}),
     HitTestSource(id, Space("Floor", 0, 1), 0, {"Plane", "Mesh"}),
     HitTestSource(id, Space("TargetRay", 1, 1), 0, {"Mesh"}),
     HitTestSource(id, Space("Local", 0, 0), 0, {"Point"})}

InitHitTest ==
    \E world \in {None, Some(TestWorld)} : InitSpawned("ImmersiveAR", None, None, world)

NextHitTest ==
    \/ \E msg \in TestCmds : Sent = 0 /\ Send(msg)
    \/ LoopStep
    \/ LoopEffect
    \/ WaitForAnimationFrame(1)
    \/ \E source \in TestSources(NextTestId) : RequestHitTest(1, source)

SpecHitTest == InitHitTest /\ [][NextHitTest]_vars

\* Hit tests requested, committed and cancelled against a world that stays,
\* by a device actor that also updates its clip planes.
InitCancel ==
    \E mode \in {"Inline", "ImmersiveAR"} : InitSpawned(mode, None, None, Some(TestWorld))

NextCancel ==
    \/ WaitForAnimationFrame(1)
    \/ UpdateClipPlanes(1, 1)
    \/ RequestHitTest(1, LocalTest(NextTestId))
    \/ \E id \in 1..MaxTests : CancelHitTest(1, id)

SpecCancel == InitCancel /\ [][NextCancel]_vars

\* Writers of the shared state: the loop applying one command, to any of the
\* fields, while the device actor makes each of its calls (a hit test is
\* requested and cancelled as the session starts).
ActorCmds ==
    {SetFloorOrigin(Some(1)), SetViewerOrigin(Some(2)), SetViews("Stereo"),
     SetWorld(TestWorld), Disconnect}

InitActor == \E mode \in {"Inline", "ImmersiveVR"} : InitSpawned(mode, None, None, None)

NextActor ==
    \/ \E msg \in ActorCmds : Sent = 0 /\ Send(msg)
    \/ LoopStep
    \/ LoopEffect
    \/ LoopPoisoned
    \/ WaitForAnimationFrame(1)
    \/ UpdateClipPlanes(1, 1)
    \/ SetEventDest(1)
    \/ Quit
    \/ SetQuitter
    \/ (calls = << >> /\ nCalls = 0) /\ RequestHitTest(1, LocalTest(NextTestId))
    \/ nCalls = 0 /\ CancelHitTest(1, 1)

SpecActor == InitActor /\ [][NextActor]_vars

\* The registry: entries added, also under an id already registered, and
\* every sub-message sent to a registered and to an unregistered id.
SubMsgs(id) ==
    {SetHandedness(id, "Right"), SetProfiles(id, "p1"), SetTargetRayMode(id, "Screen"),
     SetPointerOrigin(id, Some(2)), SetGripOrigin(id, Some(2)),
     TriggerSelect(id, "Select", "Start"), InputDisconnect(id), InputReconnect(id)}

RegistryCmds ==
    {AddInputSource(1, "Left", Some(1), None), AddInputSource(1, "Right", None, None)}
    \cup SubMsgs(1) \cup SubMsgs(2)

InitRegistry == InitWith(None, Some(1), "Mono", None, VrOnly)

NextRegistry ==
    \/ \E msg \in RegistryCmds : Send(msg)
    \/ LoopStep
    \/ LoopEffect

SpecRegistry == InitRegistry /\ [][NextRegistry]_vars

\* One press followed through the life of its input: the input is added,
\* pressed, released, disconnected and reconnected in every order, next to a
\* second input that is only added.
PressCmds ==
    {AddInputSource(1, "Left", None, None), AddInputSource(2, "Right", None, None),
     TriggerSelect(1, "Select", "Start"), TriggerSelect(1, "Select", "End"),
     InputDisconnect(1), InputReconnect(1)}

InitPress == InitWith(None, Some(1), "Mono", None, VrOnly)

NextPress ==
    \/ \E msg \in PressCmds : SendUpTo(msg, MaxPressCmds)
    \/ LoopStep
    \/ LoopEffect

SpecPress == InitPress /\ [][NextPress]_vars

\* ------------------------------------------------------- reading the history
\* handle_msg has returned from its j-th call.
Completed(j) == j < Len(applied) \/ (j = Len(applied) /\ loopPc # "effects")

\* The positions in raised of the events raised by the j-th handle_msg call.
RaisedAtBy(j) == {p \in DOMAIN raised : raisedBy[p] = j}

\* The subsequence of seq at the positions in S, in order.
RECURSIVE Restrict(_, _)
Restrict(seq, S) ==
    IF S = {} THEN << >>
    ELSE LET m == CHOOSE x \in S : \A y \in S : y <= x
         IN Append(Restrict(seq, S \ {m}), seq[m])

\* The events raised by the j-th handle_msg call, in order.
EventsBy(j) == Restrict(raised, RaisedAtBy(j))

\* The positions of the select events of input id.
SelectAt(id) == {p \in DOMAIN raised : raised[p].type = "Select" /\ raised[p].id = id}

IsTrigger(msg, id, ev) ==
    msg.type = "MessageInputSource" /\ msg.sub = "TriggerSelect" /\ msg.id = id /\ msg.ev = ev
IsInputMsg(msg, id, sub) ==
    msg.type = "MessageInputSource" /\ msg.sub = sub /\ msg.id = id

\* The entry the id resolves to is registered and clicking / active now.
ClickingNow(id) ==
    LET i == FindInput(data.inputs, id) IN i # 0 /\ data.inputs[i].clicking
ActiveNow(id) ==
    LET i == FindInput(data.inputs, id) IN i # 0 /\ data.inputs[i].active

\* ------------------------------------------------------------------- claims
\* A held press: the i-th call is TriggerSelect(kind, Start) on an active input,
\* the j-th is TriggerSelect(kind, End) on the same input, no TriggerSelect or
\* Disconnect sub-message for that input lies between, and the j-th has returned.
HeldPress(i, j) ==
    /\ i < j
    /\ applied[i].msg.type = "MessageInputSource"
    /\ IsTrigger(applied[i].msg, applied[i].msg.id, "Start")
    /\ applied[i].active
    /\ IsTrigger(applied[j].msg, applied[i].msg.id, "End")
    /\ applied[j].msg.kind = applied[i].msg.kind
    /\ \A m \in (i + 1)..(j - 1) :
          ~IsInputMsg(applied[m].msg, applied[i].msg.id, "TriggerSelect")
          /\ ~IsInputMsg(applied[m].msg, applied[i].msg.id, "Disconnect")
    /\ Completed(j)

\* C1: a TriggerSelect(kind, Start) on an active input followed later by a
\* TriggerSelect(kind, End) for it, with no TriggerSelect or Disconnect
\* sub-message for that input between, finds the input clicking at the End,
\* raises exactly the select events [Start, Select] of that kind for that input
\* (one by each command, none between), and leaves the input not clicking.
C1_HeldPressYieldsStartSelect ==
    \A i, j \in DOMAIN applied :
        HeldPress(i, j) =>
            LET id == applied[i].msg.id
                kind == applied[i].msg.kind
                between == {p \in SelectAt(id) : raisedBy[p] \in i..j}
                evs == Restrict(raised, between)
            IN /\ applied[j].clicking
               /\ Len(evs) = 2
               /\ evs[1].ev = "Start" /\ evs[1].kind = kind
               /\ evs[2].ev = "Select" /\ evs[2].kind = kind
               /\ EventsBy(i) = << evs[1] >>
               /\ EventsBy(j) = << evs[2] >>
               /\ (j = Len(applied) => ~ClickingNow(id))

C1_Witness ==
    \E i, j \in DOMAIN applied :
        HeldPress(i, j) /\ j = Len(applied) /\ Len(EventsBy(j)) = 1

\* C2 as stated: every End select event of an input has an earlier Start select
\* event of that input before it.
C2_EndOnlyAfterStart ==
    \A p \in DOMAIN raised :
        (raised[p].type = "Select" /\ raised[p].ev = "End") =>
            \E q \in SelectAt(raised[p].id) : q < p /\ raised[q].ev = "Start"

\* The positions before p of the select and remove-input events of input id.
PressHistoryBefore(id, p) ==
    {q \in DOMAIN raised :
        q < p /\ raised[q].id = id /\ raised[q].type \in {"Select", "RemoveInput"}}

\* C2 amended: an End select event is raised only by a TriggerSelect(kind, End)
\* applied while its input is active and not clicking, that is with no press
\* open: the input's latest earlier select or remove-input event, if there is
\* one, is not a Start (an End may be the first select event of its input).
C2_EndOnlyWithoutOpenPress ==
    \A p \in DOMAIN raised :
        (raised[p].type = "Select" /\ raised[p].ev = "End") =>
            LET j == raisedBy[p]
                before == PressHistoryBefore(raised[p].id, p)
            IN /\ j \in DOMAIN applied
               /\ IsTrigger(applied[j].msg, raised[p].id, "End")
               /\ applied[j].msg.kind = raised[p].kind
               /\ applied[j].active
               /\ ~applied[j].clicking
               /\ \A q \in before :
                     (\A r \in before : r <= q) =>
                        ~(raised[q].type = "Select" /\ raised[q].ev = "Start")

\* An End select event that follows earlier select events of its input.
C2_Witness ==
    \E p \in DOMAIN raised :
        /\ raised[p].type = "Select" /\ raised[p].ev = "End"
        /\ \E q \in SelectAt(raised[p].id) : q < p

\* C3: every Select select event of an input is immediately preceded, among
\* the select events of that input, by a Start.
C3_SelectFollowsStart ==
    \A p \in DOMAIN raised :
        (raised[p].type = "Select" /\ raised[p].ev = "Select") =>
            LET before == {q \in SelectAt(raised[p].id) : q < p}
            IN /\ before # {}
               /\ \A q \in before :
                     (\A r \in before : r <= q) => raised[q].ev = "Start"

\* A Select raised by a TriggerSelect(End) that closes a held press.
C3_Witness ==
    \E p \in DOMAIN raised :
        /\ raised[p].type = "Select" /\ raised[p].ev = "Select"
        /\ raisedBy[p] \in DOMAIN applied
        /\ IsTrigger(applied[raisedBy[p]].msg, raised[p].id, "End")

\* The step in which run_loop receives msg and handle_msg updates the state.
Handles(msg) ==
    /\ loopPc = "recv"
    /\ chan # << >>
    /\ Head(chan).msg = msg
    /\ applied' # applied

\* C5: a TriggerSelect addressed to a registered, inactive input raises no
\* event, changes no field of the shared state, and the loop keeps running.
C5_TriggerOnInactiveIgnored ==
    [][\A id \in Ids, k \in Kinds, e \in SelectEventValues :
          (Handles(TriggerSelect(id, k, e))
             /\ FindInput(data.inputs, id) # 0 /\ ~ActiveNow(id)) =>
                /\ data' = data
                /\ loopEffects' = << >>
                /\ raised' = raised
                /\ sinks' = sinks
                /\ clock' = clock
                /\ quitSignals' = quitSignals /\ acks' = acks
                /\ loopPc' = "recv" /\ mutex' = "free"]_vars

C5_Witness ==
    /\ applied # << >>
    /\ applied[Len(applied)].msg.sub = "TriggerSelect"
    /\ applied[Len(applied)].found
    /\ ~applied[Len(applied)].active
    /\ loopPc = "recv"

\* What the j-th handle_msg call must have raised if it is an input Disconnect
\* or Reconnect that found its entry.
ConnectEvents(j) ==
    LET a == applied[j]
        now == data.inputs[FindInput(data.inputs, a.msg.id)]
    IN CASE a.msg.sub = "Disconnect" /\ a.active -> << RemoveInputEvent(a.msg.id) >>
         [] a.msg.sub = "Reconnect" /\ ~a.active -> << AddInputEvent(now.source) >>
         [] OTHER -> << >>

\* C6, the state: Disconnect on an active entry makes it inactive, Reconnect on
\* an inactive entry makes it active, both keep the registry's length and every
\* descriptor; Disconnect on an inactive and Reconnect on an active entry change
\* nothing.
C6_Step ==
    \A id \in Ids, sub \in {"Disconnect", "Reconnect"} :
        LET i == FindInput(data.inputs, id)
        IN (Handles(MessageInputSource(id, sub, "", "", "", None)) /\ i # 0) =>
              IF data.inputs[i].active = (sub = "Disconnect")
              THEN /\ Len(data'.inputs) = Len(data.inputs)
                   /\ data'.inputs[i].active = (sub = "Reconnect")
                   /\ \A k \in DOMAIN data.inputs :
                         /\ data'.inputs[k].source = data.inputs[k].source
                         /\ k # i => data'.inputs[k] = data.inputs[k]
                   /\ [data' EXCEPT !.inputs = data.inputs] = data
              ELSE data' = data /\ loopEffects' = << >>

\* C6, the events: a returned input Disconnect or Reconnect has raised exactly
\* one remove-input(id) if the entry was active, resp. one add-input with the
\* entry's id and descriptor if it was inactive, and nothing otherwise; so a
\* Disconnect directly followed by a Reconnect on an active entry has raised
\* [remove-input(id), add-input(id)].
C6_History ==
    \A j \in DOMAIN applied :
        (Completed(j) /\ applied[j].found
            /\ applied[j].msg.type = "MessageInputSource"
            /\ applied[j].msg.sub \in {"Disconnect", "Reconnect"}) =>
               /\ (j = Len(applied) => EventsBy(j) = ConnectEvents(j))
               /\ Len(EventsBy(j)) = (IF applied[j].active = (applied[j].msg.sub = "Disconnect")
                                      THEN 1 ELSE 0)
               /\ \A p \in RaisedAtBy(j) :
                     /\ raised[p].id = applied[j].msg.id
                     /\ raised[p].type = (IF applied[j].msg.sub = "Disconnect"
                                          THEN "RemoveInput" ELSE "AddInput")

\* C6: input Disconnect and Reconnect toggle the active flag of a registered
\* input once, raise one remove-input resp. add-input event for its id when
\* they toggle it and nothing when they do not, and never delete the entry.
C6_DisconnectReconnect == [][C6_Step /\ C6_History']_vars

\* A Disconnect directly followed by a Reconnect of the same, active input.
C6_Witness ==
    \E j \in DOMAIN applied :
        /\ j + 1 = Len(applied) /\ Completed(j + 1)
        /\ applied[j].active /\ applied[j].msg.sub = "Disconnect"
        /\ applied[j + 1].msg.sub = "Reconnect"
        /\ applied[j + 1].msg.id = applied[j].msg.id
        /\ Len(EventsBy(j)) = 1 /\ Len(EventsBy(j + 1)) = 1

\* A pulse: the j-th call is TriggerSelect(kind, Select) on an active input.
Pulse(j) ==
    /\ applied[j].msg.type = "MessageInputSource"
    /\ applied[j].msg.sub = "TriggerSelect"
    /\ applied[j].msg.ev = "Select"
    /\ applied[j].active

\* C4: a TriggerSelect(kind, Select) pulse on an active input raises Start and
\* then Select for that input and kind, both with the same frame snapshot and
\* with no other event between them, whatever the device actor does meanwhile,
\* and leaves the input not clicking whatever its clicking flag was.
C4_PulseIsAtomicStartSelect ==
    \A j \in DOMAIN applied :
        Pulse(j) =>
            LET P == RaisedAtBy(j)
                id == applied[j].msg.id
                kind == applied[j].msg.kind
            IN /\ \A p, q \in P : \A r \in p..q : r \in P
               /\ Completed(j) =>
                     /\ Cardinality(P) = 2
                     /\ \E p \in P :
                           /\ p + 1 \in P
                           /\ raised[p].frame.time_ns > 0
                           /\ raised[p] = SelectEv(id, kind, "Start", raised[p].frame)
                           /\ raised[p + 1] = SelectEv(id, kind, "Select", raised[p].frame)
                     /\ (j = Len(applied) => ~ClickingNow(id))

\* A returned pulse on an input that was clicking, after a quit() of the actor.
C4_Witness ==
    \E j \in DOMAIN applied :
        /\ Pulse(j) /\ Completed(j) /\ j = Len(applied)
        /\ applied[j].clicking
        /\ \E p \in DOMAIN raised : raised[p].type = "SessionEnd"

\* The events the k-th set_event_dest call is responsible for: the first call
\* for everything raised before it and until the next call, a later call for
\* what is raised between it and the next call.
AttachFrom(k) == IF k = 1 THEN 1 ELSE attachedAt[k].at + 1
AttachTo(k) == IF k = Len(attachedAt) THEN Len(raised) ELSE attachedAt[k + 1].at

RECURSIVE ExpectedAt(_, _)
ExpectedAt(dest, k) ==
    IF k = 0 THEN << >>
    ELSE ExpectedAt(dest, k - 1)
         \o (IF attachedAt[k].dest = dest
             THEN SubSeq(raised, AttachFrom(k), AttachTo(k)) ELSE << >>)

\* C7: until a sink is attached every raised event is in the buffer, in order;
\* the first set_event_dest gives its sink the N events raised before it, each
\* once and in the order raised, ahead of every event raised later, and from
\* then on each event goes, once, to the sink attached when it is raised.
C7_SinkGetsBufferedThenLive ==
    IF attachedAt = << >>
    THEN /\ data.events.state = "Buffered"
         /\ data.events.buf = raised
         /\ \A d \in Dests : sinks[d] = << >>
    ELSE /\ data.events.state = "Sink"
         /\ data.events.dest = attachedAt[Len(attachedAt)].dest
         /\ \A d \in Dests : sinks[d] = ExpectedAt(d, Len(attachedAt))
         /\ LET first == attachedAt[1]
            IN /\ Len(sinks[first.dest]) >= first.at
               /\ SubSeq(sinks[first.dest], 1, first.at) = SubSeq(raised, 1, first.at)

\* A sink attached after two events were raised, and an event raised after.
C7_Witness ==
    /\ attachedAt # << >>
    /\ attachedAt[1].at >= 2
    /\ Len(raised) > attachedAt[1].at
    /\ Len(sinks[attachedAt[1].dest]) = Len(raised)

\* C8: the loop applies the commands one at a time in the order they arrived
\* (the j-th handle_msg call is for the j-th message sent), and the events of
\* an earlier command are all raised before those of a later one.
C8_EventsInCommandOrder ==
    /\ \A j \in DOMAIN applied : applied[j].seq = j
    /\ \A k \in DOMAIN chan : chan[k].seq = Len(applied) + k
    /\ \A p, q \in DOMAIN raised :
          (p < q /\ raisedBy[p] # 0 /\ raisedBy[q] # 0) => raisedBy[p] <= raisedBy[q]
    /\ \A p \in DOMAIN raised : raisedBy[p] <= Len(applied)

\* Three commands applied that each raised events, the second one two of them.
C8_Witness ==
    /\ Len(applied) = 3
    /\ \A j \in 1..3 : RaisedAtBy(j) # {}
    /\ Cardinality(RaisedAtBy(2)) = 2
    /\ loopPc = "recv"

\* The step in which request_session(mode) calls supports_session.
RequestStep(mode) == session'.n = session.n + 1 /\ session'.mode = mode

\* C9, every step: the flag is not cleared, the configuration is not changed,
\* supports_session is the configured boolean unless disconnected, and a
\* request_session call ends at its supports_session check, unvalidated and
\* with no actor spawned, exactly when that check is false.
C9_Step ==
    /\ data.disconnected => data'.disconnected
    /\ disc' = disc
    /\ supports_session(data, disc, "Inline") = (~data.disconnected /\ disc.supports_inline)
    /\ supports_session(data, disc, "ImmersiveVR") = (~data.disconnected /\ disc.supports_vr)
    /\ supports_session(data, disc, "ImmersiveAR") = (~data.disconnected /\ disc.supports_ar)
    /\ \A mode \in Modes :
          RequestStep(mode) =>
             IF supports_session(data, disc, mode)
             THEN /\ session'.result = "Pending"
                  /\ reqPc' = "validate"
             ELSE /\ session'.result = "NoMatchingDevice"
                  /\ ~session'.validated
                  /\ reqPc' = "idle"
                  /\ devices' = devices
    /\ (session'.n = session.n /\ session' # session) =>
          /\ session.result = "Pending"
          /\ session'.validated

\* C9: the disconnected flag is never cleared; supports_session(mode) is the
\* boolean configured for the mode while the flag is false and false for every
\* mode once it is true; request_session(mode) fails with NoMatchingDevice,
\* before validating or spawning, exactly when supports_session(mode) is false.
C9_SupportsSession == [][C9_Step]_vars

\* A session was spawned, the device disconnected, and a request for a mode
\* the device was configured to support then failed with NoMatchingDevice.
C9_Witness ==
    /\ data.disconnected
    /\ devices # << >>
    /\ session.result = "NoMatchingDevice"
    /\ supports_session_Configured(data, disc, session.mode)

DisconnectAt == {j \in DOMAIN applied : applied[j].msg.type = "Disconnect"}

\* C10, the states: the Disconnect is the last command applied; the flag is
\* set before the quitter is called and the quitter (if set) is called before
\* the acknowledgment is sent, after which supports_session is false for every
\* mode; the loop is done exactly after an acknowledged Disconnect or after the
\* channel closed and emptied.
C10_State ==
    /\ \A j \in DisconnectAt : j = Len(applied)
    /\ data.disconnected <=> DisconnectAt # {}
    /\ quitSignals > 0 => data.disconnected
    /\ acks > 0 =>
          /\ DisconnectAt # {}
          /\ acks = 1
          /\ data.disconnected
          /\ \A mode \in Modes : ~supports_session(data, disc, mode)
          /\ quitSignals = (IF applied[Len(applied)].quitter THEN 1 ELSE 0)
    /\ (DisconnectAt # {} /\ loopPc # "effects") => (loopPc = "done" /\ acks = 1)
    /\ loopPc = "done" => (acks = 1 \/ (~chanOpen /\ chan = << >>))
    /\ \A p \in DOMAIN raised : raisedBy[p] <= Len(applied)

\* C10, the steps: once the loop is done nothing is received or applied and the
\* loop writes nothing; a loop waiting on a closed, empty channel only ends.
C10_Step ==
    /\ loopPc = "done" =>
          /\ loopPc' = "done"
          /\ applied' = applied
          /\ \A k \in DOMAIN chan : chan'[k] = chan[k]
          /\ [data' EXCEPT !.quitter = data.quitter, !.events = data.events] = data
          /\ quitSignals' = quitSignals /\ acks' = acks
    /\ (loopPc = "recv" /\ ~chanOpen /\ chan = << >> /\ loopPc' # "recv") =>
          loopPc' = "done" /\ applied' = applied /\ data' = data

\* C10: the loop applies Disconnect(ack) by setting the flag, calling the
\* quitter, acknowledging and terminating, applies nothing after it, and also
\* terminates, applying nothing, when the channel is closed.
C10_DisconnectTerminates == [][C10_State' /\ C10_Step]_vars

\* A Disconnect was acknowledged with a quitter set and a later command is
\* still in the channel.
C10_Witness ==
    /\ acks = 1
    /\ quitSignals = 1
    /\ chan # << >>
    /\ loopPc = "done"

\* The frame-assembly calls in the history, and those that returned a frame.
FrameCalls == {c \in DOMAIN calls : calls[c].op = "frame"}
Frames == {c \in FrameCalls : calls[c].returned}

\* C11: every call of wait_for_animation_frame returns, with a populated
\* frame, in every session mode and for every state of the dirty flags: no
\* call is left where it cannot return (blocked on the lock or panicked).
C11_FrameAlwaysReturned ==
    /\ \A k \in DOMAIN devices : devices[k].pc = "idle"
    /\ \A c \in FrameCalls :
          /\ calls[c].returned
          /\ calls[c].frame.time_ns > 0
          /\ calls[c].frame.transform = calls[c].pre.viewer_origin

\* The place of a frame event in the fixed order.
EventRank(e) ==
    CASE e.type = "HitTestSourceAdded" -> 1
      [] e.type = "UpdateViews" -> 2
      [] e.type = "UpdateFloorTransform" -> 3

EventsOfType(evs, type) == {i \in DOMAIN evs : evs[i].type = type}

\* C12: in the event list of every frame returned by wait_for_animation_frame
\* the hit-test-source-added events come first, then the view-update event,
\* then the floor-update event, with at most one view-update and at most one
\* floor-update event.
C12_FrameEventsInFixedOrder ==
    \A c \in Frames :
        LET evs == calls[c].frame.events
        IN /\ \A i, j \in DOMAIN evs : i < j => EventRank(evs[i]) <= EventRank(evs[j])
           /\ Cardinality(EventsOfType(evs, "UpdateViews")) <= 1
           /\ Cardinality(EventsOfType(evs, "UpdateFloorTransform")) <= 1

\* A frame with two hit-test-source-added events, a view update and a floor
\* update.
C12_Witness ==
    \E c \in Frames :
        LET evs == calls[c].frame.events
        IN /\ Len(evs) = 4
           /\ evs[1].type = "HitTestSourceAdded" /\ evs[2].type = "HitTestSourceAdded"
           /\ evs[3].type = "UpdateViews"
           /\ evs[4].type = "UpdateFloorTransform"

\* The frame-assembly call before call c (0 when c is the first), and what was
\* applied or called since: the commands handle_msg applied and the
\* update_clip_planes calls made after that assembly and before assembly c.
PrevFrameCall(c) ==
    LET before == {b \in FrameCalls : b < c}
    IN IF before = {} THEN 0 ELSE CHOOSE b \in before : \A x \in before : x <= b
AppliedSince(c) ==
    LET p == PrevFrameCall(c)
    IN ((IF p = 0 THEN 0 ELSE calls[p].nApplied) + 1)..calls[c].nApplied
ViewChangedSince(c) ==
    \/ \E j \in AppliedSince(c) : applied[j].msg.type = "SetViews"
    \/ \E u \in (PrevFrameCall(c) + 1)..(c - 1) : calls[u].op = "update_clip_planes"
FloorChangedSince(c) ==
    \E j \in AppliedSince(c) : applied[j].msg.type = "SetFloorOrigin"

\* C13: with one device actor, the frame of an assembly contains a view-update
\* event iff a SetViews command or an update_clip_planes call was applied
\* since the previous assembly, and a floor-update event, carrying the current
\* floor transform, iff a SetFloorOrigin command was applied since; both dirty
\* flags are false right after the assembly, so that each change is reported
\* in exactly one frame and changes between two frames are coalesced.
C13_DirtyFlagsReportedOnce ==
    \A c \in FrameCalls :
        LET evs == calls[c].frame.events
        IN /\ (EventsOfType(evs, "UpdateViews") # {}) <=> ViewChangedSince(c)
           /\ (EventsOfType(evs, "UpdateFloorTransform") # {}) <=> FloorChangedSince(c)
           /\ \A i \in EventsOfType(evs, "UpdateFloorTransform") :
                 evs[i].floor = calls[c].pre.floor_transform
           /\ (c = Len(calls) /\ calls[c].nApplied = Len(applied)) =>
                 (~data.needs_view_update /\ ~data.needs_floor_update)

\* The frame lists exactly the active entries of the registry inps, in
\* registry order, each with its id and poses and with pressed and squeezed
\* false.
ListsActiveInputs(frame, inps) ==
    LET act == {i \in DOMAIN inps : inps[i].active}
        entries == Restrict(inps, act)
    IN /\ Len(frame.inputs) = Cardinality(act)
       /\ \A n \in DOMAIN frame.inputs :
             /\ frame.inputs[n].id = entries[n].source.id
             /\ frame.inputs[n].target_ray_origin = entries[n].pointer
             /\ frame.inputs[n].grip_origin = entries[n].grip
             /\ ~frame.inputs[n].pressed
             /\ ~frame.inputs[n].squeezed

\* C14: every frame returned by wait_for_animation_frame and every frame
\* attached to a select event lists exactly one InputFrame per registry entry
\* active at assembly, in registry order, none for an inactive entry, each with
\* pressed = false and squeezed = false, also while the entry is clicking;
\* initial_inputs() is empty.
C14_FramesListActiveInputs ==
    /\ \A c \in Frames : ListsActiveInputs(calls[c].frame, calls[c].pre.inputs)
    /\ \A p \in DOMAIN raised :
          raised[p].type = "Select" =>
             ListsActiveInputs(raised[p].frame, applied[raisedBy[p]].inputs)
    /\ initial_inputs = << >>

\* A frame assembled while an active entry is clicking, and a later frame
\* assembled with an entry inactive, which it does not list.
C14_Witness ==
    \E c, e \in Frames :
        /\ c < e
        /\ \E i \in DOMAIN calls[c].pre.inputs :
              calls[c].pre.inputs[i].active /\ calls[c].pre.inputs[i].clicking
        /\ Len(calls[c].frame.inputs) = 1
        /\ \E i \in DOMAIN calls[e].pre.inputs : ~calls[e].pre.inputs[i].active
        /\ Len(calls[e].frame.inputs) < Len(calls[e].pre.inputs)

\* The sources committed when frame call c assembled its frame, in traversal
\* order: those committed before and those this call commits.
CommittedAt(c) ==
    calls[c].dev.hit_tests.tests \o calls[c].dev.hit_tests.uncommitted_tests

\* The source's ray resolves in the state frame call c was made in.
ResolvesAt(c, source) == IsSome(native_ray(calls[c].pre, source.ray, source.space))

\* The faces source's native ray meets at frame call c: the (region, face)
\* places, over the regions of the world whose type passes the source's filter.
FacesMetAt(c, source) ==
    IF ~IsSome(calls[c].pre.world) THEN {}
    ELSE LET regions == calls[c].pre.world[1].regions
             ray == native_ray(calls[c].pre, source.ray, source.space)[1]
         IN {rf \in (DOMAIN regions) \X (1..3) :
                /\ rf[2] \in DOMAIN regions[rf[1]].faces
                /\ source.types \cap {regions[rf[1]].ty} # {}
                /\ regions[rf[1]].faces[rf[2]].at = ray}

\* The results of frame call c that carry id.
ResultsFor(c, id) ==
    {i \in DOMAIN calls[c].frame.hit_test_results :
        calls[c].frame.hit_test_results[i].id = id}

\* C15 as stated: in every frame, every committed source whose ray resolves
\* has exactly one result per face its native ray meets in the regions of
\* matching type, and none when no region matches or there is no world.
C15_ResultsPerMatchingFace ==
    \A c \in Frames :
        \A n \in DOMAIN CommittedAt(c) :
            LET source == CommittedAt(c)[n]
            IN ResolvesAt(c, source) =>
                  Cardinality(ResultsFor(c, source.id))
                      = Cardinality(FacesMetAt(c, source))

\* C15 amended: the same, for every committed source whose ray resolves and
\* that no source with an unresolvable ray precedes in traversal order; no
\* frame holds a result for any other id, nor any result without a world.
C15_ResultsPerMatchingFaceUnlessAborted ==
    \A c \in Frames :
        /\ \A n \in DOMAIN CommittedAt(c) :
              LET source == CommittedAt(c)[n]
              IN (\A m \in 1..n : ResolvesAt(c, CommittedAt(c)[m])) =>
                    /\ Cardinality(ResultsFor(c, source.id))
                          = Cardinality(FacesMetAt(c, source))
                    /\ \A i \in ResultsFor(c, source.id) :
                          Some(calls[c].frame.hit_test_results[i].space)
                             = native_ray(calls[c].pre, source.ray, source.space)
        /\ \A i \in DOMAIN calls[c].frame.hit_test_results :
              \E n \in DOMAIN CommittedAt(c) :
                  CommittedAt(c)[n].id = calls[c].frame.hit_test_results[i].id
        /\ ~IsSome(calls[c].pre.world) => calls[c].frame.hit_test_results = << >>

\* A frame with two results for one source (two faces met), two for another
\* whose ray goes through the floor transform (one face in each of two
\* regions).
C15_Witness ==
    \E c \in Frames :
        /\ Len(CommittedAt(c)) = 2
        /\ CommittedAt(c)[1].space.base.tag = "Floor"
        /\ CommittedAt(c)[2].space.base.tag = "Local"
        /\ Cardinality(ResultsFor(c, CommittedAt(c)[1].id)) = 2
        /\ Cardinality(ResultsFor(c, CommittedAt(c)[2].id)) = 2

\* The base transform source needs is absent in the state frame call c was
\* made in: no floor transform for Floor, no viewer origin for Viewer, no
\* registered input of that id or no pointer (grip) pose for TargetRay (Grip).
BaseAbsentAt(c, source) ==
    LET d == calls[c].pre
        base == source.space.base
        reg == {i \in DOMAIN d.inputs : d.inputs[i].source.id = base.id}
    IN CASE base.tag = "Local" -> FALSE
         [] base.tag = "Floor" -> d.floor_transform = None
         [] base.tag = "Viewer" -> d.viewer_origin = None
         [] base.tag = "TargetRay" ->
               reg = {} \/ \E i \in reg : (\A j \in reg : i <= j) /\ d.inputs[i].pointer = None
         [] base.tag = "Grip" ->
               reg = {} \/ \E i \in reg : (\A j \in reg : i <= j) /\ d.inputs[i].grip = None

\* The first committed source of frame call c whose base transform is absent
\* (0 when there is none).
FirstAbsentAt(c) ==
    LET S == {n \in DOMAIN CommittedAt(c) : BaseAbsentAt(c, CommittedAt(c)[n])}
    IN IF S = {} THEN 0 ELSE CHOOSE n \in S : \A m \in S : n <= m

\* C16: when the base transform of a committed source is absent at assembly,
\* the frame has no result for that source nor for any later source in
\* traversal order, and the earlier sources keep theirs; the source stays
\* committed, in its place, and the next frame evaluates it again; a source in
\* the Local space always resolves.
C16_UnresolvedRayEndsTraversal ==
    \A c \in Frames :
        LET tests == CommittedAt(c)
            f == FirstAbsentAt(c)
        IN /\ \A n \in DOMAIN tests :
                 /\ ResolvesAt(c, tests[n]) <=> ~BaseAbsentAt(c, tests[n])
                 /\ tests[n].space.base.tag = "Local" => ResolvesAt(c, tests[n])
                 /\ (f # 0 /\ n >= f) => ResultsFor(c, tests[n].id) = {}
                 /\ (f = 0 \/ n < f) =>
                       Cardinality(ResultsFor(c, tests[n].id))
                          = Cardinality(FacesMetAt(c, tests[n]))
           /\ \A e \in Frames :
                 c < e => SubSeq(CommittedAt(e), 1, Len(tests)) = tests
           /\ c = Len(calls) => devices[calls[c].k].hit_tests.tests = tests

\* A frame whose first source lacks its floor transform, so that neither it
\* nor the Local source after it has a result, and a later frame, after the
\* floor was calibrated, with the results of both.
C16_Witness ==
    \E c, e \in Frames :
        /\ c < e
        /\ Len(CommittedAt(c)) = 2
        /\ FirstAbsentAt(c) = 1
        /\ CommittedAt(c)[2].space.base.tag = "Local"
        /\ Cardinality(FacesMetAt(c, CommittedAt(c)[2])) = 2
        /\ calls[c].frame.hit_test_results = << >>
        /\ FirstAbsentAt(e) = 0
        /\ Len(calls[e].frame.hit_test_results) = 4

\* The calls that requested a source, and those that cancelled id.
RequestCalls == {r \in DOMAIN calls : calls[r].op = "request_hit_test"}
CancelledBetween(id, r, c) ==
    \E x \in (r + 1)..(c - 1) : calls[x].op = "cancel_hit_test" /\ calls[x].num = id

\* The source requested by call r is pending when call c is made: no frame
\* assembly and no cancel of its id lies between; it is live when no cancel
\* of its id lies between.
PendingAt(r, c) ==
    /\ r < c
    /\ ~CancelledBetween(calls[r].num, r, c)
    /\ (r + 1)..(c - 1) \cap FrameCalls = {}
LiveAt(r, c) == r < c /\ ~CancelledBetween(calls[r].num, r, c)

AddedEvents(c, id) ==
    {i \in DOMAIN calls[c].frame.events :
        calls[c].frame.events[i] = HitTestSourceAdded(id)}

\* C17: a requested source is pending until the next wait_for_animation_frame,
\* which commits it and reports one hit-test-source-added event for it in its
\* frame; no other frame reports it; a frame has results for an id only if the
\* source was requested before and not cancelled since; a cancel of an id that
\* is neither pending nor committed changes nothing.
C17_HitTestLifecycle ==
    /\ \A r \in RequestCalls :
          /\ r = Len(calls) =>
                LET l == devices[calls[r].k].hit_tests
                IN /\ \E i \in DOMAIN l.uncommitted_tests : l.uncommitted_tests[i] = calls[r].src
                   /\ \A i \in DOMAIN l.tests : l.tests[i].id # calls[r].num
          /\ \A c \in FrameCalls :
                PendingAt(r, c) =>
                   /\ calls[c].returned
                   /\ Cardinality(AddedEvents(c, calls[r].num)) = 1
    /\ \A c \in FrameCalls :
          /\ \A i \in DOMAIN calls[c].frame.events :
                calls[c].frame.events[i].type = "HitTestSourceAdded" =>
                   \E r \in RequestCalls :
                       PendingAt(r, c) /\ calls[r].num = calls[c].frame.events[i].id
          /\ \A i \in DOMAIN calls[c].frame.hit_test_results :
                \E r \in RequestCalls :
                    LiveAt(r, c) /\ calls[r].num = calls[c].frame.hit_test_results[i].id
    /\ \A x \in DOMAIN calls :
          (/\ x = Len(calls)
           /\ calls[x].op = "cancel_hit_test"
           /\ ~\E r \in RequestCalls : LiveAt(r, x) /\ calls[r].num = calls[x].num) =>
              devices[calls[x].k].hit_tests = calls[x].dev.hit_tests

\* A step of the device actor (one of its calls), as opposed to the loop's.
ActorStep == nCalls' # nCalls \/ calls' # calls

\* The fields of the shared state the loop owns.
LoopOwned(d) ==
    << d.floor_transform, d.viewer_origin, d.views, d.world, d.disconnected, d.inputs >>

\* C18 as stated: only the loop writes the floor transform, viewer origin,
\* view configuration, world and disconnected flag, and a call of the device
\* actor modifies only its clip planes and the view-dirty flag, leaving every
\* other field of the shared state unchanged.
C18_ActorWritesOnlyViewFlag ==
    [][/\ LoopOwned(data') # LoopOwned(data) => applied' # applied
       /\ ActorStep =>
             [data' EXCEPT !.needs_view_update = data.needs_view_update] = data]_vars

\* C18 amended: only the loop writes the floor transform, viewer origin, view
\* configuration, world, disconnected flag and input registry; a call of the
\* device actor modifies, of the shared state, only the two dirty flags, the
\* event buffer and the quit callback, and of its own state only the clip
\* planes and the hit-test list.
C18_ActorLeavesLoopFields ==
    [][/\ LoopOwned(data') # LoopOwned(data) => applied' # applied
       /\ ActorStep =>
             /\ [data' EXCEPT !.needs_view_update = data.needs_view_update,
                              !.needs_floor_update = data.needs_floor_update,
                              !.events = data.events,
                              !.quitter = data.quitter] = data
             /\ applied' = applied
             /\ \A k \in DOMAIN devices : devices'[k].mode = devices[k].mode]_vars

\* The loop has set the floor transform and the actor has set the quitter,
\* attached a sink and cleared the floor flag in a frame.
C18_Witness ==
    /\ data.floor_transform # None
    /\ data.quitter
    /\ data.events.state = "Sink"
    /\ ~data.needs_floor_update
    /\ \E c \in Frames : calls[c].pre.needs_floor_update

\* The step in which run_loop receives a command of the given type and
\* handle_msg is called with it.
HandlesType(type) ==
    /\ loopPc = "recv"
    /\ chan # << >>
    /\ Head(chan).msg.type = type
    /\ applied' # applied

\* The registry entries with the given id, in the state before the step.
EntriesWith(id) == {i \in DOMAIN data.inputs : data.inputs[i].source.id = id}

\* C19, every step: a MessageInputSource whose id matches no entry changes no
\* field of the shared state, raises no event and no error, and the loop goes
\* on to the next command; one whose id matches several entries changes at
\* most the first-inserted of them; an AddInputSource appends its entry, also
\* when the id is registered already, and changes no other entry.
C19_Step ==
    /\ HandlesType("MessageInputSource") =>
          LET S == EntriesWith(Head(chan).msg.id)
          IN IF S = {}
             THEN /\ data' = data
                  /\ loopEffects' = << >>
                  /\ raised' = raised /\ sinks' = sinks
                  /\ quitSignals' = quitSignals /\ acks' = acks
                  /\ loopPc' = "recv" /\ mutex' = "free"
                  /\ chan' = Tail(chan)
             ELSE /\ Len(data'.inputs) = Len(data.inputs)
                  /\ \A k \in DOMAIN data.inputs :
                        (\E i \in S : i < k) => data'.inputs[k] = data.inputs[k]
                  /\ [data' EXCEPT !.inputs = data.inputs] = data
                  /\ \A e \in DOMAIN loopEffects' :
                        loopEffects'[e].eff = "callback"
                        /\ loopEffects'[e].ev.id = Head(chan).msg.id
    /\ HandlesType("AddInputSource") =>
          /\ Len(data'.inputs) = Len(data.inputs) + 1
          /\ SubSeq(data'.inputs, 1, Len(data.inputs)) = data.inputs
          /\ data'.inputs[Len(data'.inputs)].source.id = Head(chan).msg.id

\* C19: a MessageInputSource(id, sub) whose id matches no registry entry is a
\* silent no-op for every sub-message and the loop goes on; when several
\* entries share an id (AddInputSource never rejects or replaces a duplicate),
\* a sub-message affects only the first-inserted entry with that id.
C19_UnknownIdIsNoOp == [][C19_Step]_vars

\* Two entries share an id, a Disconnect for it was applied, and the command
\* before it was a sub-message for an id that matched no entry.
C19_Witness ==
    /\ Len(applied) = 3
    /\ loopPc = "recv"
    /\ applied[2].msg.type = "MessageInputSource" /\ ~applied[2].found
    /\ applied[2].inputs # << >>
    /\ applied[3].msg.type = "AddInputSource"
    /\ Len(data.inputs) = 2
    /\ data.inputs[1].source.id = data.inputs[2].source.id

\* The lock can never be released again: the device actor holds it and waits
\* for it a second time inside views(), or it panicked there and left the
\* Mutex poisoned, so that the loop's lock().unwrap() panics in turn.
LockLost ==
    \/ mutex = "dev" /\ \E k \in DOMAIN devices : devices[k].pc = "relock"
    \/ mutex = "poisoned"
    \/ loopPc = "panicked"

\* C20: access to the shared state is mutually exclusive and never blocks for
\* ever: every frame is assembled between two commands, never during the
\* application of one, and no context is left waiting for a lock that is never
\* released, so every command sent to the running loop, Disconnect included,
\* can still be applied and acknowledged.
C20_LockNeverBlocksForever ==
    /\ \A c \in FrameCalls : calls[c].loopPc # "effects"
    /\ ~LockLost

\* Every registry entry that is clicking is active.
ClickingImpliesActive ==
    \A k \in DOMAIN data.inputs : data.inputs[k].clicking => data.inputs[k].active

\* The j-th call is a TriggerSelect(End) applied to an active input that was
\* disconnected, while active, by the d-th call, with no TriggerSelect(Start)
\* for it applied since.
EndAfterDisconnect(d, j) ==
    /\ d < j
    /\ IsInputMsg(applied[d].msg, applied[j].msg.id, "Disconnect")
    /\ applied[d].active
    /\ IsTrigger(applied[j].msg, applied[j].msg.id, "End")
    /\ applied[j].active
    /\ \A m \in (d + 1)..(j - 1) : ~IsTrigger(applied[m].msg, applied[j].msg.id, "Start")
    /\ Completed(j)

\* A press left open before an input Disconnect is forgotten: the End that
\* follows the Reconnect raises End, not Select.
OpenPressForgotten ==
    \A d, j \in DOMAIN applied :
        EndAfterDisconnect(d, j) =>
            /\ ~applied[j].clicking
            /\ Len(EventsBy(j)) = 1
            /\ EventsBy(j)[1].type = "Select" /\ EventsBy(j)[1].ev = "End"

\* What one handle_msg call does to the registry: entries are never removed
\* and keep their ids; AddInputSource appends an active entry that is not
\* clicking; an input Disconnect leaves its entry inactive and not clicking;
\* a TriggerSelect on an inactive entry changes nothing and raises nothing;
\* a Reconnect leaves its entry active, and not clicking if it was inactive.
RegistryStep ==
    /\ Len(data'.inputs) >= Len(data.inputs)
    /\ \A k \in DOMAIN data.inputs :
          data'.inputs[k].source.id = data.inputs[k].source.id
    /\ HandlesType("AddInputSource") =>
          LET e == data'.inputs[Len(data'.inputs)]
          IN /\ Len(data'.inputs) = Len(data.inputs) + 1
             /\ e.active /\ ~e.clicking
    /\ HandlesType("MessageInputSource") =>
          LET msg == Head(chan).msg
              S == EntriesWith(msg.id)
          IN S # {} =>
               LET f == CHOOSE i \in S : \A i2 \in S : i <= i2
               IN /\ msg.sub = "Disconnect" =>
                        ~data'.inputs[f].active /\ ~data'.inputs[f].clicking
                  /\ (msg.sub = "TriggerSelect" /\ ~data.inputs[f].active) =>
                        data' = data /\ loopEffects' = << >>
                  /\ msg.sub = "Reconnect" =>
                        /\ data'.inputs[f].active
                        /\ ~data.inputs[f].active => ~data'.inputs[f].clicking

\* C21: in every reachable state every registry entry whose clicking flag is
\* true is also active: AddInputSource creates entries active and not
\* clicking, an input Disconnect clears clicking, TriggerSelect cannot set
\* clicking on an inactive entry, and Reconnect yields an active, not-clicking
\* entry; a press left open before an input Disconnect is forgotten, and an
\* End after Reconnect raises End rather than Select; registry entries are
\* never removed and their ids never change.
C21_ClickingOnlyWhileActive ==
    /\ [](ClickingImpliesActive /\ OpenPressForgotten)
    /\ [][RegistryStep]_vars

\* The input was added, pressed, disconnected with the press open,
\* reconnected, and then released: the release raised End.
C21_Witness ==
    /\ Len(applied) = 5
    /\ EndAfterDisconnect(3, 5)
    /\ IsTrigger(applied[2].msg, applied[5].msg.id, "Start")
    /\ applied[3].clicking
    /\ IsInputMsg(applied[4].msg, applied[5].msg.id, "Reconnect")
    /\ EventsBy(5)[1].ev = "End"
    /\ ClickingImpliesActive

====
